---- MODULE Spec2Model ----
(***************************************************************************)
(* The trading journal (class TradingJournal): the in-memory collection    *)
(* `trades`, the identifier counter `nextId`, the edit cursor `editId`,    *)
(* the CSV codec (exportToCSV / escapeCSVField / parseCSVLine), the import *)
(* reconciliation (processCSVData) with its asynchronous file read, the    *)
(* statistics (calculateStats), the store (localStorage) and the status    *)
(* line with its hide timers (showStatus).                                 *)
(*                                                                         *)
(* Text is a sequence of one-character strings.  A JavaScript number is a  *)
(* record [k, v]: k = "int" with the integer v, or k = "nan" for NaN.      *)
(* Integers stay far below 2^53, where double arithmetic is exact.         *)
(***************************************************************************)
EXTENDS Integers, Sequences, FiniteSets, TLC

VARIABLES trades, nextId, editId, status, stored, lastImport,
          field, encoded, decoded, pc,
          stats, reading, writable, now, timers, banner, download, editGone

vars == <<trades, nextId, editId, status, stored, lastImport, field, encoded, decoded, pc,
          stats, reading, writable, now, timers, banner, download, editGone>>

journalVars == <<trades, nextId, editId, status, stored, lastImport, download, editGone>>
codecVars == <<field, encoded, decoded, pc>>
sideVars == <<stats, now, timers, banner>>

----------------------------------------------------------------------------
(* Characters *)

QUOTE == "\""
COMMA == ","
NL == "\n"
SP == " "

Whitespace == {SP, NL}

Digits == <<"0", "1", "2", "3", "4", "5", "6", "7", "8", "9">>

IsDigit(c) == \E d \in 1..10 : Digits[d] = c

DigitValue(c) == (CHOOSE d \in 1..10 : Digits[d] = c) - 1

----------------------------------------------------------------------------
(* JavaScript numbers *)

Num(n) == [k |-> "int", v |-> n]
NaN == [k |-> "nan", v |-> 0]

\* a === b on numbers: NaN is equal to nothing, itself included
StrictEq(a, b) == a.k # "nan" /\ b.k # "nan" /\ a = b

\* a >= b on numbers
Geq(a, b) == a.k # "nan" /\ b.k # "nan" /\ a.v >= b.v

\* a + 1; NaN + 1 is NaN
PlusOne(a) == IF a.k = "nan" THEN NaN ELSE Num(a.v + 1)

----------------------------------------------------------------------------
(* String helpers *)

Includes(s, c) == \E i \in 1..Len(s) : s[i] = c

RECURSIVE TrimStart(_)
TrimStart(s) ==
    IF s # <<>> /\ Head(s) \in Whitespace THEN TrimStart(Tail(s)) ELSE s

RECURSIVE TrimEnd(_)
TrimEnd(s) ==
    IF s # <<>> /\ s[Len(s)] \in Whitespace
    THEN TrimEnd(SubSeq(s, 1, Len(s) - 1))
    ELSE s

\* String.prototype.trim
Trim(s) == TrimEnd(TrimStart(s))

\* s.indexOf(c) as a 1-based position, 0 if c does not occur
IndexOf(s, c) ==
    IF Includes(s, c)
    THEN CHOOSE i \in 1..Len(s) : s[i] = c /\ \A j \in 1..(i - 1) : s[j] # c
    ELSE 0

\* s.split('\n'): the pieces between newlines; never an empty list
RECURSIVE SplitLines(_)
SplitLines(s) ==
    IF IndexOf(s, NL) = 0 THEN <<s>>
    ELSE <<SubSeq(s, 1, IndexOf(s, NL) - 1)>>
         \o SplitLines(SubSeq(s, IndexOf(s, NL) + 1, Len(s)))

\* array.join(sep) on a sequence of texts
RECURSIVE Join(_, _)
Join(parts, sep) ==
    IF parts = <<>> THEN <<>>
    ELSE IF Len(parts) = 1 THEN parts[1]
    ELSE parts[1] \o sep \o Join(Tail(parts), sep)

\* s.replace(/"/g, '""')
RECURSIVE DoubleQuotes(_)
DoubleQuotes(s) ==
    IF s = <<>> THEN <<>>
    ELSE IF Head(s) = QUOTE THEN <<QUOTE, QUOTE>> \o DoubleQuotes(Tail(s))
    ELSE <<Head(s)>> \o DoubleQuotes(Tail(s))

\* s.replace(/""/g, '"'): left to right, non-overlapping
RECURSIVE Unescape(_)
Unescape(s) ==
    IF Len(s) >= 2 /\ s[1] = QUOTE /\ s[2] = QUOTE
    THEN <<QUOTE>> \o Unescape(SubSeq(s, 3, Len(s)))
    ELSE IF s = <<>> THEN <<>>
    ELSE <<Head(s)>> \o Unescape(Tail(s))

----------------------------------------------------------------------------
(* Number <-> text conversions *)

NaNText == <<"N", "a", "N">>

RECURSIVE DigitPrefix(_)
DigitPrefix(s) ==
    IF s # <<>> /\ IsDigit(Head(s)) THEN <<Head(s)>> \o DigitPrefix(Tail(s)) ELSE <<>>

RECURSIVE DigitsToNat(_, _)
DigitsToNat(ds, acc) ==
    IF ds = <<>> THEN acc ELSE DigitsToNat(Tail(ds), 10 * acc + DigitValue(Head(ds)))

\* The numeric prefix both parseInt and parseFloat read: leading whitespace,
\* an optional sign, then decimal digits; no digit gives NaN.
ParseNumberPrefix(s) ==
    LET t == TrimStart(s)
        signed == t # <<>> /\ Head(t) \in {"-", "+"}
        neg == t # <<>> /\ Head(t) = "-"
        ds == DigitPrefix(IF signed THEN Tail(t) ELSE t)
    IN  IF ds = <<>> THEN NaN
        ELSE Num(IF neg THEN 0 - DigitsToNat(ds, 0) ELSE DigitsToNat(ds, 0))

\* parseInt(text)
ParseInt(s) == ParseNumberPrefix(s)

\* parseFloat(text); the inputs of the model carry no fraction or exponent
ParseFloat(s) == ParseNumberPrefix(s)

RECURSIVE NatToText(_)
NatToText(n) ==
    IF n < 10 THEN <<Digits[n + 1]>> ELSE NatToText(n \div 10) \o <<Digits[(n % 10) + 1]>>

\* String(number), as Array.prototype.join renders a number
NumberToText(a) ==
    CASE a.k = "nan" -> NaNText
      [] a.v < 0 -> <<"-">> \o NatToText(0 - a.v)
      [] OTHER -> NatToText(a.v)

----------------------------------------------------------------------------
(* The delimited codec *)

CSV_HEADER ==
    <<"I", "D", ",", "D", "a", "t", "e", ",",
      "T", "r", "a", "d", "e", "S", "e", "t", "u", "p", ",",
      "R", "R", ",", "P", "n", "L", ",",
      "A", "c", "t", "i", "v", "e", "M", "g", "m", "t", ",",
      "E", "x", "e", "c", "u", "t", "i", "o", "n", ",",
      "N", "o", "t", "e">>

\* the number of fields of a CSV row
FieldCount == 8

\* the value of a property an object does not have
Undefined == <<"undefined">>

EscapeCSVField(f) ==
    IF Includes(f, COMMA) \/ Includes(f, NL) \/ Includes(f, QUOTE)
    THEN <<QUOTE>> \o DoubleQuotes(f) \o <<QUOTE>>
    ELSE f

\* one row of exportToCSV: only activeMgmt and note go through escapeCSVField,
\* and the ticker is not written
ExportRow(t) ==
    Join(<<NumberToText(t.id), t.date, t.tradeSetup, t.rr, NumberToText(t.pnl),
           EscapeCSVField(t.activeMgmt), t.execution, EscapeCSVField(t.note)>>,
         <<COMMA>>)

RECURSIVE ExportRows(_)
ExportRows(ts) ==
    IF ts = <<>> THEN <<>> ELSE ExportRow(Head(ts)) \o <<NL>> \o ExportRows(Tail(ts))

\* csvContent of exportToCSV
ExportText(ts) == CSV_HEADER \o <<NL>> \o ExportRows(ts)

\* The scanning loop of parseCSVLine, from 1-based position i.
RECURSIVE ScanLine(_, _, _, _, _)
ScanLine(line, i, fields, current, inQuotes) ==
    IF i > Len(line) THEN Append(fields, Unescape(current))
    ELSE
      LET char == line[i]
          nextIs(c) == i < Len(line) /\ line[i + 1] = c
      IN  IF char = QUOTE /\ (i = 1 \/ line[i - 1] = COMMA)
          THEN ScanLine(line, i + 1, fields, current, TRUE)
          ELSE IF char = QUOTE /\ inQuotes /\ (i = Len(line) \/ nextIs(COMMA))
          THEN ScanLine(line, i + 1, fields, current, FALSE)
          ELSE IF char = COMMA /\ ~inQuotes
          THEN ScanLine(line, i + 1, Append(fields, Unescape(current)), <<>>, inQuotes)
          ELSE IF ~(char = QUOTE /\ inQuotes /\ nextIs(QUOTE))
          THEN ScanLine(line, i + 1, fields, Append(current, char), inQuotes)
          ELSE ScanLine(line, i + 2, fields, Append(current, char), inQuotes)

\* the `fields` array parseCSVLine builds
ParseFields(line) == ScanLine(line, 1, <<>>, <<>>, FALSE)

NoTrade ==
    [id |-> NaN, date |-> <<>>, tradeSetup |-> <<>>, ticker |-> Undefined, rr |-> <<>>,
     pnl |-> NaN, activeMgmt |-> <<>>, execution |-> <<>>, note |-> <<>>]

\* parseCSVLine: [ok |-> FALSE] stands for the null it returns
\* a faulty parseCSVLine that only rejects a line with too few fields
ParseCSVLine_AtLeast(line) ==
    LET fields == ParseFields(line)
    IN  IF Len(fields) < FieldCount THEN [ok |-> FALSE, trade |-> NoTrade]
        ELSE IF \E i \in 1..7 : fields[i] = <<>> THEN [ok |-> FALSE, trade |-> NoTrade]
        ELSE [ok |-> TRUE,
              trade |-> [id |-> ParseInt(fields[1]),
                         date |-> Trim(fields[2]),
                         tradeSetup |-> Trim(fields[3]),
                         ticker |-> Undefined,
                         rr |-> Trim(fields[4]),
                         pnl |-> ParseFloat(fields[5]),
                         activeMgmt |-> Trim(fields[6]),
                         execution |-> Trim(fields[7]),
                         note |-> Trim(fields[8])]]

ParseCSVLine(line) ==
    LET fields == ParseFields(line)
    IN  IF Len(fields) # FieldCount THEN [ok |-> FALSE, trade |-> NoTrade]
        ELSE IF \E i \in 1..7 : fields[i] = <<>> THEN [ok |-> FALSE, trade |-> NoTrade]
        ELSE [ok |-> TRUE,
              trade |-> [id |-> ParseInt(fields[1]),
                         date |-> Trim(fields[2]),
                         tradeSetup |-> Trim(fields[3]),
                         ticker |-> Undefined,
                         rr |-> Trim(fields[4]),
                         pnl |-> ParseFloat(fields[5]),
                         activeMgmt |-> Trim(fields[6]),
                         execution |-> Trim(fields[7]),
                         note |-> Trim(fields[8])]]

----------------------------------------------------------------------------
(* Bounds of the model *)

\* the collection holds at most MaxTrades records
MaxTrades == 2

\* the ids of the records stay at or below MaxId
MaxId == 3

\* an imported document has at most MaxLines lines after its header
MaxLines == 2

----------------------------------------------------------------------------
(* The form *)

\* null, as the value of editId
NullId == [k |-> "null", v |-> 0]

RR_1 == <<"1", ":", "1">>

\* new Date().toISOString().split('T')[0] at the time of the call
Today == <<"E">>

\* what the user typed in the form (the values of the DOM inputs)
FormInputs ==
    LET form(ticker, rr, pnl, note) ==
          [tradeSetup |-> <<"S">>, ticker |-> ticker, rr |-> rr, pnl |-> pnl,
           activeMgmt |-> <<"N">>, execution |-> <<"A">>, note |-> note]
    IN  { form(<<"T">>, RR_1, <<"5">>, <<QUOTE, QUOTE>>),
          form(<<"T">>, <<"2", ".", "5", ":", "1">>, <<"-", "3">>, <<"n", SP>>),
          form(<<>>, RR_1, <<"5">>, <<>>),
          form(<<"T">>, RR_1, <<"a">>, <<>>),
          form(<<"T">>, <<"1", ":", "2">>, <<"5">>, <<>>) }

\* getFormData
GetFormData(raw) ==
    [tradeSetup |-> raw.tradeSetup,
     ticker |-> Trim(raw.ticker),
     rr |-> Trim(raw.rr),
     pnl |-> raw.pnl,
     activeMgmt |-> Trim(raw.activeMgmt),
     execution |-> raw.execution,
     note |-> Trim(raw.note)]

\* /^\d+(\.\d+)?:1$/.test(value)
MatchesRRPattern(value) ==
    LET whole == DigitPrefix(value)
        rest == SubSeq(value, Len(whole) + 1, Len(value))
        frac == IF rest # <<>> /\ Head(rest) = "." THEN DigitPrefix(Tail(rest)) ELSE <<>>
        tail == IF rest # <<>> /\ Head(rest) = "." /\ frac # <<>>
                THEN SubSeq(rest, Len(frac) + 2, Len(rest))
                ELSE rest
    IN  whole # <<>> /\ tail = <<":", "1">>

\* a faulty validateRRInput that accepts every text
ValidateRRInput_Any(raw) == raw = raw

\* validateRRInput: its return value
ValidateRRInput(raw) ==
    LET value == Trim(raw.rr)
    IN  value = <<>> \/ MatchesRRPattern(value)

\* the first required field of validateFormData that is empty, "" if none
MissingField(fd) ==
    CASE fd.tradeSetup = <<>> -> "tradeSetup"
      [] fd.ticker = <<>> -> "ticker"
      [] fd.rr = <<>> -> "rr"
      [] fd.pnl = <<>> -> "pnl"
      [] fd.activeMgmt = <<>> -> "activeMgmt"
      [] fd.execution = <<>> -> "execution"
      [] OTHER -> ""

\* validateFormData: its return value
ValidateFormData(fd) ==
    MissingField(fd) = "" /\ ParseFloat(fd.pnl).k # "nan"

\* a faulty record builder that drops the note
TradeFromForm_NoNote(fd, id, date) ==
    [id |-> id, date |-> date, tradeSetup |-> fd.tradeSetup, ticker |-> fd.ticker,
     rr |-> fd.rr, pnl |-> ParseFloat(fd.pnl), activeMgmt |-> fd.activeMgmt,
     execution |-> fd.execution, note |-> <<>>]

\* a faulty record builder that drops the ticker
TradeFromForm_NoTicker(fd, id, date) ==
    [id |-> id, date |-> date, tradeSetup |-> fd.tradeSetup, ticker |-> <<>>,
     rr |-> fd.rr, pnl |-> ParseFloat(fd.pnl), activeMgmt |-> fd.activeMgmt,
     execution |-> fd.execution, note |-> fd.note]

\* the record addTrade builds from the form, for a given id and date
TradeFromForm(fd, id, date) ==
    [id |-> id, date |-> date, tradeSetup |-> fd.tradeSetup, ticker |-> fd.ticker,
     rr |-> fd.rr, pnl |-> ParseFloat(fd.pnl), activeMgmt |-> fd.activeMgmt,
     execution |-> fd.execution, note |-> fd.note]

----------------------------------------------------------------------------
(* Status line and storage *)

\* showStatus(message, type); imported and skipped are the counts an import
\* message carries, 0 in any other message
Status(msg, type) == [msg |-> msg, type |-> type, imported |-> 0, skipped |-> 0]

ImportStatus(imported, skipped) ==
    [msg |-> "Imported", type |-> "success", imported |-> imported, skipped |-> skipped]

\* JSON.stringify writes NaN as null
JsonNumber(a) == IF a.k = "nan" THEN NullId ELSE a

JsonTrade(t) == [t EXCEPT !.id = JsonNumber(t.id), !.pnl = JsonNumber(t.pnl)]

\* An item of localStorage as getItem returns it: null when the key is absent
\* (k = "absent"), else a text.  The text of the counter is kept as it is
\* (k = "text").  The text of the collection is kept by what JSON.parse makes
\* of it: the array it denotes (k = "json"), a value that is not an array
\* (k = "object"), or a SyntaxError (k = "corrupt").
Item(k, v) == [k |-> k, v |-> v]

AbsentItem == Item("absent", <<>>)

\* saveDataToStorage: the two items written to localStorage
SaveDataToStorage(ts, nid) ==
    [trades |-> Item("json", [i \in 1..Len(ts) |-> JsonTrade(ts[i])]),
     nextId |-> Item("text", NumberToText(nid))]

\* The store after the two setItem calls of saveDataToStorage.  A setItem
\* throws when the store rejects the write; the catch leaves whatever was
\* written before it: nothing (writable = "none") or the collection without
\* the counter (writable = "first").
Written(ts, nid) ==
    CASE writable = "all" -> SaveDataToStorage(ts, nid)
      [] writable = "first" -> [stored EXCEPT !.trades = SaveDataToStorage(ts, nid).trades]
      [] OTHER -> stored

\* the message of the catch of saveDataToStorage
SaveError == Status("Error saving data to storage", "error")

\* the status line after saveDataToStorage, when the message shown before the
\* call is s: the catch replaces it
AfterSave(s) == IF writable = "all" THEN s ELSE SaveError

----------------------------------------------------------------------------
(* Imported documents *)

Row(fields) == Join(fields, <<COMMA>>)

\* a well-formed row with the given ID, PnL and Note texts
PlainRow(id, pnl, note) ==
    Row(<<id, <<"D">>, <<"S">>, RR_1, pnl, <<"N">>, <<"A">>, note>>)

\* the data lines a document is made of
DataLines ==
    { PlainRow(<<"1">>, <<"5">>, <<"n">>),
      PlainRow(<<"2">>, <<"a">>, <<>>),
      PlainRow(<<"x">>, <<"5">>, <<"n">>),
      Row(<<<<"1">>, <<"D">>, <<"S">>, RR_1, <<"5">>, <<"N">>, <<"A">>>>),
      Row(<<<<"1">>, <<"D">>, <<"S">>, RR_1, <<"5">>, <<"N">>, <<"A">>, <<"n">>, <<"n">>>>),
      Row(<<<<"1">>, <<"D">>, <<>>, RR_1, <<"5">>, <<"N">>, <<"A">>, <<"n">>>>),
      Row(<<<<"3">>, <<"D">>, <<QUOTE, "S", COMMA, "T", QUOTE>>, RR_1, <<"5">>,
            <<"N">>, <<"A">>, <<QUOTE, "a", COMMA, "b", QUOTE>>>>),
      <<SP>> }

RECURSIVE SeqsUpTo(_, _)
SeqsUpTo(S, n) ==
    IF n = 0 THEN {<<>>}
    ELSE LET shorter == SeqsUpTo(S, n - 1)
         IN  shorter \cup {Append(q, x) : q \in {r \in shorter : Len(r) = n - 1}, x \in S}

\* a header line and data lines, each line ended by a newline as exportToCSV writes it
Document(header, lines) == header \o <<NL>> \o Join(lines, <<NL>>) \o <<NL>>

BadHeader == <<"I", "D">>

\* the texts a picked file can hold
CsvTexts ==
    { Document(CSV_HEADER, ls) : ls \in SeqsUpTo(DataLines, MaxLines) }
    \cup { Document(h, <<PlainRow(<<"1">>, <<"5">>, <<"n">>)>>) :
             h \in {CSV_HEADER \o <<SP>>, BadHeader} }
    \cup { <<>>, BadHeader, CSV_HEADER }

\* csvText.trim().split('\n')
Lines(text) == SplitLines(Trim(text))

\* this.trades.find(t => t.id === id), as a truth value
HasId(ts, id) == \E i \in 1..Len(ts) : StrictEq(ts[i].id, id)

\* What processCSVData reads off one data line before it touches the journal:
\* whether the line is blank, and what parseCSVLine returns for it.
DecodeLine(line) ==
    [line |-> line, blank |-> Trim(line) = <<>>, parsed |-> ParseCSVLine(line)]

\* What processCSVData reads off the text: its lines (count), the header line
\* and the decoded data lines; head is the first line of the text as picked.
\* parseCSVLine reads no journal state, so decoding the lines ahead of the loop
\* gives what decoding them inside it gives.
DecodeDocument(text) ==
    LET lines == Lines(text)
    IN  [head |-> IF IndexOf(text, NL) = 0 THEN text
                  ELSE SubSeq(text, 1, IndexOf(text, NL) - 1),
         count |-> Len(lines),
         header |-> Trim(lines[1]),
         rows |-> [i \in 1..(Len(lines) - 1) |-> DecodeLine(lines[i + 1])]]

\* an entry of the import log: a data line and the branch the loop took for it
Logged(row, branch) == [line |-> row.line, branch |-> branch]

\* a faulty forEach body that stores a colliding record under its decoded id
ImportLine_KeepId(st, row) ==
    IF row.blank THEN [st EXCEPT !.log = Append(@, Logged(row, "blank"))]
    ELSE IF ~row.parsed.ok
    THEN [st EXCEPT !.skipped = @ + 1, !.log = Append(@, Logged(row, "skipped"))]
    ELSE
      LET trade == row.parsed.trade
          collides == HasId(st.trades, trade.id)
      IN  [trades |-> Append(st.trades, trade),
           nextId |-> IF Geq(trade.id, st.nextId) THEN PlusOne(trade.id) ELSE st.nextId,
           imported |-> st.imported + 1,
           skipped |-> st.skipped,
           log |-> Append(st.log,
                          Logged(row, IF collides THEN "renumbered" ELSE "kept"))]

\* a faulty forEach body that never raises the counter past a kept id
ImportLine_NoRaise(st, row) ==
    IF row.blank THEN [st EXCEPT !.log = Append(@, Logged(row, "blank"))]
    ELSE IF ~row.parsed.ok
    THEN [st EXCEPT !.skipped = @ + 1, !.log = Append(@, Logged(row, "skipped"))]
    ELSE
      LET trade == row.parsed.trade
          collides == HasId(st.trades, trade.id)
          id == IF collides THEN st.nextId ELSE trade.id
          counter == IF collides THEN PlusOne(st.nextId) ELSE st.nextId
      IN  [trades |-> Append(st.trades, [trade EXCEPT !.id = id]),
           nextId |-> counter,
           imported |-> st.imported + 1,
           skipped |-> st.skipped,
           log |-> Append(st.log,
                          Logged(row, IF collides THEN "renumbered" ELSE "kept"))]

\* a faulty forEach body that drops a colliding record as a skipped row
ImportLine_DropDuplicate(st, row) ==
    IF row.blank THEN [st EXCEPT !.log = Append(@, Logged(row, "blank"))]
    ELSE IF ~row.parsed.ok
    THEN [st EXCEPT !.skipped = @ + 1, !.log = Append(@, Logged(row, "skipped"))]
    ELSE
      LET trade == row.parsed.trade
          collides == HasId(st.trades, trade.id)
      IN  IF collides
          THEN [st EXCEPT !.skipped = @ + 1, !.log = Append(@, Logged(row, "renumbered"))]
          ELSE [trades |-> Append(st.trades, trade),
                nextId |-> IF Geq(trade.id, st.nextId) THEN PlusOne(trade.id)
                           ELSE st.nextId,
                imported |-> st.imported + 1,
                skipped |-> st.skipped,
                log |-> Append(st.log, Logged(row, "kept"))]

\* a faulty forEach body that counts a blank line as skipped
ImportLine_CountBlank(st, row) ==
    IF row.blank
    THEN [st EXCEPT !.skipped = @ + 1, !.log = Append(@, Logged(row, "blank"))]
    ELSE IF ~row.parsed.ok
    THEN [st EXCEPT !.skipped = @ + 1, !.log = Append(@, Logged(row, "skipped"))]
    ELSE
      LET trade == row.parsed.trade
          collides == HasId(st.trades, trade.id)
          id == IF collides THEN st.nextId ELSE trade.id
          counter == IF collides THEN PlusOne(st.nextId) ELSE st.nextId
      IN  [trades |-> Append(st.trades, [trade EXCEPT !.id = id]),
           nextId |-> IF Geq(id, counter) THEN PlusOne(id) ELSE counter,
           imported |-> st.imported + 1,
           skipped |-> st.skipped,
           log |-> Append(st.log,
                          Logged(row, IF collides THEN "renumbered" ELSE "kept"))]

\* One pass of the forEach body of processCSVData over a decoded line, from the
\* state st = [trades, nextId, imported, skipped, log]; log records, line by
\* line, the branch taken.
ImportLine(st, row) ==
    IF row.blank THEN [st EXCEPT !.log = Append(@, Logged(row, "blank"))]
    ELSE IF ~row.parsed.ok
    THEN [st EXCEPT !.skipped = @ + 1, !.log = Append(@, Logged(row, "skipped"))]
    ELSE
      LET trade == row.parsed.trade
          collides == HasId(st.trades, trade.id)
          id == IF collides THEN st.nextId ELSE trade.id
          counter == IF collides THEN PlusOne(st.nextId) ELSE st.nextId
      IN  [trades |-> Append(st.trades, [trade EXCEPT !.id = id]),
           nextId |-> IF Geq(id, counter) THEN PlusOne(id) ELSE counter,
           imported |-> st.imported + 1,
           skipped |-> st.skipped,
           log |-> Append(st.log,
                          Logged(row, IF collides THEN "renumbered" ELSE "kept"))]

\* dataLines.forEach(...)
RECURSIVE ImportLines(_, _)
ImportLines(st, rows) ==
    IF rows = <<>> THEN st ELSE ImportLines(ImportLine(st, Head(rows)), Tail(rows))

ImportStart(ts, nid) ==
    [trades |-> ts, nextId |-> nid, imported |-> 0, skipped |-> 0, log |-> <<>>]

\* a faulty header test that accepts every header line
HeaderMatches_Any(doc) == doc.header = doc.header

\* header !== this.CSV_HEADER, negated
HeaderMatches(doc) == doc.header = CSV_HEADER

\* What the journal keeps of the last command for inspection, when that command
\* was an import: the first line of the text as picked, the number of lines
\* of the trimmed text, and the branch the loop took for each data line.
NoImport == [ran |-> FALSE, head |-> <<>>, count |-> 0, log |-> <<>>]

Imported(doc, log) == [ran |-> TRUE, head |-> doc.head, count |-> doc.count, log |-> log]

\* the collection and counter stay within the bounds of the model
WithinBounds(ts, nid) ==
    /\ Len(ts) <= MaxTrades
    /\ nid.v <= MaxId + 1

\* calculateStats has not run
NoStats == <<>>

\* the status line as the page is loaded: nothing displayed
NoBanner == [shown |-> FALSE, since |-> 0, msg |-> ""]

\* the file exportToCSV offers for download (link.click()), and no file
Download(text) == [offered |-> TRUE, text |-> text]

NoDownload == [offered |-> FALSE, text |-> <<>>]

\* Outside the collection: no statistics computed yet, no file read in flight,
\* no file offered, a store that accepts every write, the clock at 0 with no
\* timer set.
Quiet ==
    /\ download = NoDownload
    /\ editGone = FALSE
    /\ stats = NoStats
    /\ reading = <<>>
    /\ writable = "all"
    /\ now = 0
    /\ timers = {}
    /\ banner = NoBanner

----------------------------------------------------------------------------
(* The commands *)

Init ==
    /\ trades = <<>>
    /\ nextId = Num(1)
    /\ editId = NullId
    /\ status = Status("", "")
    /\ stored = SaveDataToStorage(<<>>, Num(1))
    /\ lastImport = NoImport
    /\ field = <<>>
    /\ encoded = <<>>
    /\ decoded = ParseCSVLine(<<>>)
    /\ pc = "idle"
    /\ Quiet

\* History of the edit cursor: whether the record loadTradeForEdit loaded into
\* the form has left the collection since (editGone).  After a command the
\* record is gone if it was gone before or no record has the id any more; a
\* journal out of edit mode has no loaded record.
GoneAfter == editId' # NullId /\ (editGone \/ ~HasId(trades', editId'))

\* findIndex(t => t.id === id): the first index, 0 if there is none
FindIndex(ts, id) ==
    IF HasId(ts, id)
    THEN CHOOSE i \in 1..Len(ts) :
            StrictEq(ts[i].id, id) /\ \A j \in 1..(i - 1) : ~StrictEq(ts[j].id, id)
    ELSE 0

\* a faulty addTrade whose update stamps the record with the current date
AddTrade_Redate(raw) ==
    LET fd == GetFormData(raw)
        idx == FindIndex(trades, editId)
    IN  /\ lastImport' = NoImport
        /\ download' = NoDownload
        /\ UNCHANGED <<codecVars, sideVars, reading, writable>>
        /\ IF ~ValidateRRInput(raw)
           THEN /\ status' = Status("Please fix the R:R format before submitting", "error")
                /\ UNCHANGED <<trades, nextId, editId, stored>>
           ELSE IF MissingField(fd) # ""
           THEN /\ status' = Status("Please fill in the field", "error")
                /\ UNCHANGED <<trades, nextId, editId, stored>>
           ELSE IF ~ValidateFormData(fd)
           THEN /\ status' = Status("PnL must be a valid number", "error")
                /\ UNCHANGED <<trades, nextId, editId, stored>>
           ELSE IF editId # NullId
           THEN IF idx = 0
                THEN /\ status' = Status("Error updating trade: not found", "error")
                     /\ UNCHANGED <<trades, nextId, editId, stored>>
                ELSE /\ trades' = [trades EXCEPT
                                     ![idx] = TradeFromForm(fd, editId, Today)]
                     /\ status' = AfterSave(Status("Trade updated successfully!", "success"))
                     /\ editId' = NullId
                     /\ UNCHANGED nextId
                     /\ stored' = Written(trades', nextId')
           ELSE /\ WithinBounds(Append(trades, TradeFromForm(fd, nextId, Today)),
                                PlusOne(nextId))
                /\ trades' = Append(trades, TradeFromForm(fd, nextId, Today))
                /\ nextId' = PlusOne(nextId)
                /\ status' = AfterSave(Status("Trade added successfully!", "success"))
                /\ UNCHANGED editId
                /\ stored' = Written(trades', nextId')
        /\ editGone' = GoneAfter

\* addTrade: a form submit, creating a record or updating the one under edit
AddTrade(raw) ==
    LET fd == GetFormData(raw)
        idx == FindIndex(trades, editId)
    IN  /\ lastImport' = NoImport
        /\ download' = NoDownload
        /\ UNCHANGED <<codecVars, sideVars, reading, writable>>
        /\ IF ~ValidateRRInput(raw)
           THEN /\ status' = Status("Please fix the R:R format before submitting", "error")
                /\ UNCHANGED <<trades, nextId, editId, stored>>
           ELSE IF MissingField(fd) # ""
           THEN /\ status' = Status("Please fill in the field", "error")
                /\ UNCHANGED <<trades, nextId, editId, stored>>
           ELSE IF ~ValidateFormData(fd)
           THEN /\ status' = Status("PnL must be a valid number", "error")
                /\ UNCHANGED <<trades, nextId, editId, stored>>
           ELSE IF editId # NullId
           THEN IF idx = 0
                THEN /\ status' = Status("Error updating trade: not found", "error")
                     /\ UNCHANGED <<trades, nextId, editId, stored>>
                ELSE /\ trades' = [trades EXCEPT
                                     ![idx] = TradeFromForm(fd, editId, trades[idx].date)]
                     /\ status' = AfterSave(Status("Trade updated successfully!", "success"))
                     /\ editId' = NullId
                     /\ UNCHANGED nextId
                     /\ stored' = Written(trades', nextId')
           ELSE /\ WithinBounds(Append(trades, TradeFromForm(fd, nextId, Today)),
                                PlusOne(nextId))
                /\ trades' = Append(trades, TradeFromForm(fd, nextId, Today))
                /\ nextId' = PlusOne(nextId)
                /\ status' = AfterSave(Status("Trade added successfully!", "success"))
                /\ UNCHANGED editId
                /\ stored' = Written(trades', nextId')
        /\ editGone' = GoneAfter

\* the ids a click or a call can pass
IdInputs == {Num(n) : n \in 1..MaxId} \cup {NaN}

\* loadTradeForEdit(id)
LoadTradeForEdit(id) ==
    /\ lastImport' = NoImport
    /\ download' = NoDownload
    /\ IF HasId(trades, id)
       THEN /\ editId' = id
            /\ UNCHANGED status
       ELSE /\ status' = Status("Selected trade not found", "error")
            /\ UNCHANGED editId
    /\ UNCHANGED <<trades, nextId, stored>>
    /\ UNCHANGED <<codecVars, sideVars, reading, writable>>
    /\ editGone' = IF HasId(trades, id) THEN FALSE ELSE GoneAfter

\* cancelEdit
CancelEdit ==
    /\ lastImport' = NoImport
    /\ download' = NoDownload
    /\ editId' = NullId
    /\ status' = Status("Edit cancelled, new trades will be added", "info")
    /\ UNCHANGED <<trades, nextId, stored>>
    /\ UNCHANGED <<codecVars, sideVars, reading, writable>>
    /\ editGone' = GoneAfter

\* a faulty splice that also drops everything behind the index
Splice_Tail(ts, index) == SubSeq(ts, 1, index - 1)

\* the array after splice(index, 1)
Splice(ts, index) == SubSeq(ts, 1, index - 1) \o SubSeq(ts, index + 1, Len(ts))

\* a faulty deleteTrade that hands the id of the deleted record back to the counter
DeleteTrade_Rewind(id, confirmed) ==
    /\ lastImport' = NoImport
    /\ download' = NoDownload
    /\ IF HasId(trades, id)
       THEN IF confirmed
            THEN /\ trades' = Splice(trades, FindIndex(trades, id))
                 /\ nextId' = id
                 /\ stored' = Written(trades', nextId')
                 /\ status' = Status("Trade deleted.", "success")
            ELSE UNCHANGED <<trades, nextId, stored, status>>
       ELSE /\ status' = Status("Trade not found for deletion.", "error")
            /\ UNCHANGED <<trades, nextId, stored>>
    /\ UNCHANGED editId
    /\ UNCHANGED <<codecVars, sideVars, reading, writable>>
    /\ editGone' = GoneAfter

\* deleteTrade(id); confirmed is the answer to the confirm() prompt
DeleteTrade(id, confirmed) ==
    /\ lastImport' = NoImport
    /\ download' = NoDownload
    /\ IF HasId(trades, id)
       THEN IF confirmed
            THEN /\ trades' = Splice(trades, FindIndex(trades, id))
                 /\ stored' = Written(trades', nextId)
                 /\ status' = Status("Trade deleted.", "success")
            ELSE UNCHANGED <<trades, stored, status>>
       ELSE /\ status' = Status("Trade not found for deletion.", "error")
            /\ UNCHANGED <<trades, stored>>
    /\ UNCHANGED <<nextId, editId>>
    /\ UNCHANGED <<codecVars, sideVars, reading, writable>>
    /\ editGone' = GoneAfter

\* a faulty clearAllData that leaves the counter where it is
ClearAllData_KeepCounter(confirmed) ==
    /\ lastImport' = NoImport
    /\ download' = NoDownload
    /\ IF confirmed
       THEN /\ trades' = <<>>
            /\ nextId' = nextId
            /\ stored' = Written(<<>>, nextId)
            /\ status' = Status("All data cleared", "success")
       ELSE UNCHANGED <<trades, nextId, stored, status>>
    /\ UNCHANGED editId
    /\ UNCHANGED <<codecVars, sideVars, reading, writable>>
    /\ editGone' = GoneAfter

\* clearAllData; confirmed is the answer to the confirm() prompt
ClearAllData(confirmed) ==
    /\ lastImport' = NoImport
    /\ download' = NoDownload
    /\ IF confirmed
       THEN /\ trades' = <<>>
            /\ nextId' = Num(1)
            /\ stored' = Written(<<>>, Num(1))
            /\ status' = Status("All data cleared", "success")
       ELSE UNCHANGED <<trades, nextId, stored, status>>
    /\ UNCHANGED editId
    /\ UNCHANGED <<codecVars, sideVars, reading, writable>>
    /\ editGone' = GoneAfter

\* a faulty exportToCSV that offers a file whatever the collection holds
ExportToCSV_Always ==
    /\ lastImport' = NoImport
    /\ status' = IF trades = <<>>
                 THEN Status("No trades to export", "error")
                 ELSE Status("Exported trades to CSV", "success")
    /\ download' = Download(ExportText(trades))
    /\ UNCHANGED <<trades, nextId, editId, stored>>
    /\ UNCHANGED <<codecVars, sideVars, reading, writable>>
    /\ editGone' = GoneAfter

\* exportToCSV: the file it offers is ExportText(trades)
ExportToCSV ==
    /\ lastImport' = NoImport
    /\ status' = IF trades = <<>>
                 THEN Status("No trades to export", "error")
                 ELSE Status("Exported trades to CSV", "success")
    /\ download' = IF trades = <<>> THEN NoDownload ELSE Download(ExportText(trades))
    /\ UNCHANGED <<trades, nextId, editId, stored>>
    /\ UNCHANGED <<codecVars, sideVars, reading, writable>>
    /\ editGone' = GoneAfter

\* the file reads in flight once the one that delivered text has completed;
\* a text that no read in flight holds was picked and delivered with no
\* command in between
RECURSIVE Completed(_, _)
Completed(reads, text) ==
    IF reads = <<>> THEN <<>>
    ELSE IF Head(reads) = text THEN Tail(reads)
    ELSE <<Head(reads)>> \o Completed(Tail(reads), text)

\* the decoding of every text a picked file can hold
Decoded == [text \in CsvTexts |-> DecodeDocument(text)]

\* processCSVData(csvText), called when the file read of importFromCSV completes
ProcessCSVData(csvText) ==
    LET doc == Decoded[csvText]
        done == ImportLines(ImportStart(trades, nextId), doc.rows)
    IN  /\ UNCHANGED editId
        /\ UNCHANGED <<codecVars, sideVars, writable>>
        /\ reading' = Completed(reading, csvText)
        /\ download' = NoDownload
        /\ IF doc.count < 2
           THEN /\ status' = Status("CSV file appears to be empty", "error")
                /\ lastImport' = Imported(doc, <<>>)
                /\ UNCHANGED <<trades, nextId, stored>>
           ELSE IF ~HeaderMatches(doc)
           THEN /\ status' = Status("Invalid CSV header", "error")
                /\ lastImport' = Imported(doc, <<>>)
                /\ UNCHANGED <<trades, nextId, stored>>
           ELSE /\ WithinBounds(done.trades, done.nextId)
                /\ trades' = done.trades
                /\ nextId' = done.nextId
                /\ stored' = Written(trades', nextId')
                /\ status' = ImportStatus(done.imported, done.skipped)
                /\ lastImport' = Imported(doc, done.log)
        /\ editGone' = GoneAfter

Next ==
    \/ \E raw \in FormInputs : AddTrade(raw)
    \/ \E id \in IdInputs : LoadTradeForEdit(id)
    \/ CancelEdit
    \/ \E id \in IdInputs, confirmed \in BOOLEAN : DeleteTrade(id, confirmed)
    \/ \E confirmed \in BOOLEAN : ClearAllData(confirmed)
    \/ ExportToCSV
    \/ \E csvText \in CsvTexts : ProcessCSVData(csvText)

Spec == Init /\ [][Next]_vars

----------------------------------------------------------------------------
(* A store that can reject writes: the commands of the journal, with       *)
(* localStorage.setItem throwing or not from one command to the next.      *)

\* how many of the two setItem calls of a save the store accepts
StoreConditions == {"all", "first", "none"}

\* the store fills up between two commands: from then on setItem throws, on
\* the first call of a save (w = "none") or on the second (w = "first")
StoreFills(w) ==
    /\ writable = "all"
    /\ w # "all"
    /\ writable' = w
    /\ UNCHANGED journalVars
    /\ UNCHANGED <<codecVars, sideVars, reading>>

\* the forms submitted and the files imported while the store comes and goes
StoreForms ==
    {raw \in FormInputs : raw.note = <<QUOTE, QUOTE>> \/ raw.pnl = <<"a">>}

StoreTexts ==
    { Document(CSV_HEADER, <<PlainRow(<<"1">>, <<"5">>, <<"n">>)>>), BadHeader }

\* the rows clicked on
StoreIds == {Num(1), Num(2)}

StoreNext ==
    \/ \E w \in StoreConditions : StoreFills(w)
    \/ \E raw \in StoreForms : AddTrade(raw)
    \/ \E id \in StoreIds : LoadTradeForEdit(id)
    \/ CancelEdit
    \/ \E id \in StoreIds, confirmed \in BOOLEAN : DeleteTrade(id, confirmed)
    \/ \E confirmed \in BOOLEAN : ClearAllData(confirmed)
    \/ ExportToCSV
    \/ \E csvText \in StoreTexts : ProcessCSVData(csvText)

SpecStore == Init /\ [][StoreNext]_vars

----------------------------------------------------------------------------
(* The asynchronous file read of an import: importFromCSV starts a          *)
(* FileReader and returns; processCSVData runs when the reader's onload     *)
(* fires, after whatever commands and other completions came in between.    *)

\* at most MaxReads file reads are in flight
MaxReads == 2

\* the files picked, the forms submitted and the rows clicked on meanwhile
AsyncTexts ==
    { Document(CSV_HEADER, <<PlainRow(<<"1">>, <<"5">>, <<"n">>)>>),
      Document(CSV_HEADER, <<PlainRow(<<"x">>, <<"5">>, <<"n">>)>>),
      BadHeader }

AsyncForms == StoreForms

AsyncIds == StoreIds

\* importFromCSV(file): reader.readAsText(file), the text of the file being text
ImportFromCSV(text) ==
    /\ Len(reading) < MaxReads
    /\ reading' = Append(reading, text)
    /\ UNCHANGED journalVars
    /\ UNCHANGED <<codecVars, sideVars, writable>>

\* reader.onload of the i-th read in flight
ReaderOnload(i) ==
    /\ i \in 1..Len(reading)
    /\ ProcessCSVData(reading[i])

AsyncNext ==
    \/ \E text \in AsyncTexts : ImportFromCSV(text)
    \/ \E i \in 1..MaxReads : ReaderOnload(i)
    \/ \E raw \in AsyncForms : AddTrade(raw)
    \/ \E id \in AsyncIds : LoadTradeForEdit(id)
    \/ CancelEdit
    \/ \E id \in AsyncIds, confirmed \in BOOLEAN : DeleteTrade(id, confirmed)
    \/ \E confirmed \in BOOLEAN : ClearAllData(confirmed)
    \/ ExportToCSV

SpecAsync == Init /\ [][AsyncNext]_vars

----------------------------------------------------------------------------
(* The status line in time: showStatus displays a message and sets a timer  *)
(* that hides the status line 5 seconds later; time is counted in seconds.  *)

\* setTimeout(..., 5000)
HideAfter == 5

\* the clock of the model stops at MaxTime
MaxTime == 12

\* the messages shown
Messages == {"Trade added successfully!", "Trade deleted."}

\* showStatus(message, type): the message is displayed and a timer is set.
\* timers holds the times at which the pending timers are due; two timers due
\* at the same time hide the same thing and are kept as one.
ShowStatus(message) ==
    /\ banner' = [shown |-> TRUE, since |-> now, msg |-> message]
    /\ timers' = timers \cup {now + HideAfter}
    /\ UNCHANGED <<now, stats>>
    /\ UNCHANGED journalVars
    /\ UNCHANGED <<codecVars, reading, writable>>

\* the callback of a timer that is due: statusDiv.className = 'status-message'
\* hides whatever the status line displays
TimerFires(due) ==
    /\ due \in timers
    /\ due <= now
    /\ timers' = timers \ {due}
    /\ banner' = [banner EXCEPT !.shown = FALSE]
    /\ UNCHANGED <<now, stats>>
    /\ UNCHANGED journalVars
    /\ UNCHANGED <<codecVars, reading, writable>>

\* a second passes; a timer fires at its due time or later, never earlier
Tick ==
    /\ now < MaxTime
    /\ now' = now + 1
    /\ UNCHANGED <<timers, banner, stats>>
    /\ UNCHANGED journalVars
    /\ UNCHANGED <<codecVars, reading, writable>>

StatusNext ==
    \/ \E message \in Messages : ShowStatus(message)
    \/ \E due \in 0..(MaxTime + HideAfter) : TimerFires(due)
    \/ Tick

SpecStatus == Init /\ [][StatusNext]_vars

----------------------------------------------------------------------------
(* The codec on one note: escapeCSVField, then parseCSVLine on the row that   *)
(* carries the encoded note as its last field.                                *)

\* a note has at most MaxNoteLen characters
MaxNoteLen == 4

NoteChars == {COMMA, QUOTE, NL, "a"}

\* the notes a record can hold: getFormData and parseCSVLine both trim the note
Notes == {n \in SeqsUpTo(NoteChars, MaxNoteLen) : Trim(n) = n}

CodecInit ==
    /\ trades = <<>>
    /\ nextId = Num(1)
    /\ editId = NullId
    /\ status = Status("", "")
    /\ stored = SaveDataToStorage(<<>>, Num(1))
    /\ lastImport = NoImport
    /\ field \in Notes
    /\ encoded = <<>>
    /\ decoded = ParseCSVLine(<<>>)
    /\ pc = "encode"
    /\ Quiet

\* exportToCSV encodes the note of a row
Encode ==
    /\ pc = "encode"
    /\ encoded' = EscapeCSVField(field)
    /\ pc' = "decode"
    /\ UNCHANGED <<field, decoded>>
    /\ UNCHANGED journalVars
    /\ UNCHANGED <<sideVars, reading, writable>>

\* parseCSVLine decodes the row the encoded note was written in
Decode ==
    /\ pc = "decode"
    /\ decoded' = ParseCSVLine(PlainRow(<<"1">>, <<"5">>, encoded))
    /\ pc' = "done"
    /\ UNCHANGED <<field, encoded>>
    /\ UNCHANGED journalVars
    /\ UNCHANGED <<sideVars, reading, writable>>

CodecNext == Encode \/ Decode

SpecCodec == CodecInit /\ [][CodecNext]_vars

----------------------------------------------------------------------------
(* Loading: the constructor's loadDataFromStorage on a store found in any   *)
(* condition.                                                               *)

\* what this.trades is after JSON.parse returned a value that is not an array
NotAnArray == <<"object">>

\* a record as a stored collection holds it
StoredTrade(id) ==
    [id |-> id, date |-> <<"D">>, tradeSetup |-> <<"S">>, ticker |-> <<"T">>,
     rr |-> RR_1, pnl |-> Num(5), activeMgmt |-> <<"N">>, execution |-> <<"A">>,
     note |-> <<>>]

StoredTrades == {StoredTrade(Num(n)) : n \in 1..MaxId} \cup {StoredTrade(NullId)}

\* the conditions the collection item can be found in
TradesItems ==
    {AbsentItem, Item("corrupt", <<>>), Item("object", <<>>)}
    \cup {Item("json", ts) : ts \in SeqsUpTo(StoredTrades, MaxTrades)}

\* the conditions the counter item can be found in
CounterItems ==
    {AbsentItem, Item("text", <<>>), Item("text", <<"x">>)}
    \cup {Item("text", NumberToText(Num(n))) : n \in 1..(MaxId + 1)}

Stores == [trades : TradesItems, nextId : CounterItems]

\* the item is null or the empty text
Falsy(item) == item.k = "absent" \/ (item.k = "text" /\ item.v = <<>>)

\* Number(id) of a stored id: null counts as 0
ToNumber(a) == IF a.k = "null" THEN 0 ELSE a.v

\* Math.max(...this.trades.map(t => t.id))
RECURSIVE MaxOfIds(_)
MaxOfIds(ts) ==
    IF Len(ts) = 1 THEN ToNumber(ts[1].id)
    ELSE LET rest == MaxOfIds(Tail(ts))
         IN  IF ToNumber(ts[1].id) >= rest THEN ToNumber(ts[1].id) ELSE rest

\* loadDataFromStorage: the collection and the counter it leaves
LoadDataFromStorage(st) ==
    IF st.trades.k = "corrupt"
    THEN [trades |-> <<>>, nextId |-> Num(1)]
    ELSE LET ts == CASE st.trades.k = "absent" -> <<>>
                     [] st.trades.k = "object" -> NotAnArray
                     [] OTHER -> st.trades.v
         IN  [trades |-> ts,
              nextId |-> IF ~Falsy(st.nextId) THEN ParseInt(st.nextId.v)
                         ELSE IF st.trades.k = "json" /\ Len(ts) > 0
                         THEN Num(MaxOfIds(ts) + 1)
                         ELSE Num(1)]

LoadInit ==
    /\ trades = <<>>
    /\ nextId = Num(1)
    /\ editId = NullId
    /\ status = Status("", "")
    /\ stored \in Stores
    /\ lastImport = NoImport
    /\ field = <<>>
    /\ encoded = <<>>
    /\ decoded = ParseCSVLine(<<>>)
    /\ pc = "load"
    /\ Quiet

\* init(): loadDataFromStorage
Load ==
    /\ pc = "load"
    /\ trades' = LoadDataFromStorage(stored).trades
    /\ nextId' = LoadDataFromStorage(stored).nextId
    /\ pc' = "loaded"
    /\ UNCHANGED <<editId, status, stored, lastImport, download, editGone, field, encoded, decoded>>
    /\ UNCHANGED <<sideVars, reading, writable>>

LoadNext == Load

SpecLoad == LoadInit /\ [][LoadNext]_vars

----------------------------------------------------------------------------
(* The statistics: calculateStats on a collection of any content.          *)

\* a view holds at most MaxView records
MaxView == 3

SCALP == <<"S", "c", "a", "l", "p", ":">>
SWING == <<"S", "w", "i", "n", "g", ":">>

\* the setups of the records a view is computed on
ViewSetups == {SCALP \o <<SP, "W">>, SWING \o <<SP, "P", "B">>, <<"S">>}

\* their pnl: a loss, a break-even, two wins, and the NaN an import can store
ViewPnls == {Num(0 - 50), Num(0), Num(100), Num(200), NaN}

ViewTrade(setup, pnl) ==
    [id |-> Num(1), date |-> <<"D">>, tradeSetup |-> setup, ticker |-> <<"T">>,
     rr |-> RR_1, pnl |-> pnl, activeMgmt |-> <<"N">>, execution |-> <<"A">>,
     note |-> <<>>]

ViewTrades == {ViewTrade(s, p) : s \in ViewSetups, p \in ViewPnls}

\* s.startsWith(prefix)
StartsWith(s, prefix) ==
    Len(s) >= Len(prefix) /\ SubSeq(s, 1, Len(prefix)) = prefix

\* a + b on numbers
Plus(a, b) == IF a.k = "nan" \/ b.k = "nan" THEN NaN ELSE Num(a.v + b.v)

\* trades.reduce((sum, trade) => sum + trade.pnl, 0)
RECURSIVE SumPnl(_, _)
SumPnl(ts, sum) ==
    IF ts = <<>> THEN sum ELSE SumPnl(Tail(ts), Plus(sum, Head(ts).pnl))

\* t.pnl > 0 and t.pnl < 0: both false on NaN
IsWin(t) == t.pnl.k = "int" /\ t.pnl.v > 0
IsLoss(t) == t.pnl.k = "int" /\ t.pnl.v < 0

RECURSIVE Gcd(_, _)
Gcd(a, b) == IF b = 0 THEN a ELSE Gcd(b, a % b)

\* the quotient n / d of two integers, d > 0, as a fraction in lowest terms
Quotient(n, d) ==
    LET g == Gcd(IF n < 0 THEN 0 - n ELSE n, d)
    IN  [n |-> n \div g, d |-> d \div g]

Whole(n) == Quotient(n, 1)

\* Math.abs
Abs(q) == [q EXCEPT !.n = IF @ < 0 THEN 0 - @ ELSE @]

\* a faulty rounding that cuts the fraction off
RoundPercent_Floor(wins, total) == (100 * wins) \div total

\* Math.round((wins / total) * 100): the nearest integer, a half going up
RoundPercent(wins, total) == (200 * wins + total) \div (2 * total)

\* a faulty mean of the losses that keeps its sign
MeanLoss_Signed(losing) == Quotient(SumPnl(losing, Num(0)).v, Len(losing))

\* Math.abs(losingTrades.reduce(...) / losingTrades.length)
MeanLoss(losing) == Abs(Quotient(SumPnl(losing, Num(0)).v, Len(losing)))

\* calculateStatsForTrades(trades)
CalculateStatsForTrades(ts) ==
    IF Len(ts) = 0
    THEN [totalPnl |-> Num(0), totalTrades |-> 0, winRate |-> 0,
          avgWin |-> Whole(0), avgLoss |-> Whole(0)]
    ELSE LET winningTrades == SelectSeq(ts, IsWin)
             losingTrades == SelectSeq(ts, IsLoss)
         IN  [totalPnl |-> SumPnl(ts, Num(0)),
              totalTrades |-> Len(ts),
              winRate |-> RoundPercent(Len(winningTrades), Len(ts)),
              avgWin |-> IF Len(winningTrades) > 0
                         THEN Quotient(SumPnl(winningTrades, Num(0)).v, Len(winningTrades))
                         ELSE Whole(0),
              avgLoss |-> IF Len(losingTrades) > 0 THEN MeanLoss(losingTrades)
                          ELSE Whole(0)]

IsScalp(t) == StartsWith(t.tradeSetup, SCALP)
IsSwing(t) == StartsWith(t.tradeSetup, SWING)

\* calculateStats on the collection ts
CalculateStats(ts) ==
    [overall |-> CalculateStatsForTrades(ts),
     scalp |-> CalculateStatsForTrades(SelectSeq(ts, IsScalp)),
     swing |-> CalculateStatsForTrades(SelectSeq(ts, IsSwing))]

StatsInit ==
    /\ trades \in SeqsUpTo(ViewTrades, MaxView)
    /\ nextId = Num(1)
    /\ editId = NullId
    /\ status = Status("", "")
    /\ stored = SaveDataToStorage(<<>>, Num(1))
    /\ lastImport = NoImport
    /\ field = <<>>
    /\ encoded = <<>>
    /\ decoded = ParseCSVLine(<<>>)
    /\ pc = "stats"
    /\ Quiet

\* updateStatsDisplay: const stats = this.calculateStats()
UpdateStatsDisplay ==
    /\ pc = "stats"
    /\ stats' = CalculateStats(trades)
    /\ pc' = "shown"
    /\ UNCHANGED journalVars
    /\ UNCHANGED <<field, encoded, decoded, now, timers, banner, reading, writable>>

StatsNext == UpdateStatsDisplay

SpecStats == StatsInit /\ [][StatsNext]_vars

----------------------------------------------------------------------------
(* Notions the laws are stated in *)

\* two ids are the same identifier: equal integers
SameId(a, b) == a.k = "int" /\ b.k = "int" /\ a.v = b.v

\* a is strictly greater than b
Greater(a, b) == a.k = "int" /\ b.k = "int" /\ a.v > b.v

\* the decoding of each data line of the model
DecodedLines == [l \in DataLines |-> DecodeLine(l)]

DecodedOf(line) == IF line \in DataLines THEN DecodedLines[line] ELSE DecodeLine(line)

\* the number of fields each data line splits into
NumberOfFields == [l \in DataLines |-> Len(ParseFields(l))]

FieldsOf(line) == IF line \in DataLines THEN NumberOfFields[line] ELSE Len(ParseFields(line))

\* the line is not blank and decodes to a record
IsRecord(line) == ~DecodedOf(line).blank /\ DecodedOf(line).parsed.ok

IsRecordEntry(e) == IsRecord(e.line)

\* the decoded records of an import log, in encounter order
Records(log) ==
    LET entries == SelectSeq(log, IsRecordEntry)
    IN  [i \in 1..Len(entries) |-> DecodedOf(entries[i].line).parsed.trade]

\* the last command was an import that got past the header
ImportRan == lastImport.ran /\ status.msg = "Imported"

\* the journal as the import loop finds it
Here == ImportStart(trades, nextId)

----------------------------------------------------------------------------
(* C1: in every reachable state no two records of the collection have the  *)
(* same id.                                                                 *)
C1_UniqueIds ==
    \A i, j \in 1..Len(trades) : i # j => trades[i].id # trades[j].id

(* C2: in every reachable state nextId is strictly greater than the id of   *)
(* every record of the collection.                                          *)
C2_CounterAboveIds == \A i \in 1..Len(trades) : Greater(nextId, trades[i].id)

(* C3: every stored record has a finite pnl, whether it came from the form  *)
(* or from an import.                                                        *)
C3_PnlFinite == \A i \in 1..Len(trades) : trades[i].pnl.k = "int"

\* the fields of a record the CSV schema carries
CsvFields(t) == [t EXCEPT !.ticker = Undefined]

(* C4: encoding a non-empty collection with exportToCSV and decoding the    *)
(* text line by line gives back the records, field-equal (on the fields of   *)
(* the CSV schema) and in the same order, with no line skipped.              *)
C4_RoundTrip ==
    trades # <<>> =>
      LET doc == DecodeDocument(ExportText(trades))
      IN  /\ doc.count = Len(trades) + 1
          /\ HeaderMatches(doc)
          /\ \A i \in 1..Len(trades) :
                /\ ~doc.rows[i].blank
                /\ doc.rows[i].parsed.ok
                /\ doc.rows[i].parsed.trade = CsvFields(trades[i])

(* C5: a note holding a comma, a double-quote and a newline is encoded as a  *)
(* quote-wrapped field with its double-quotes doubled, and decoding that     *)
(* encoded field gives back the note.                                        *)
C5_QuotingLaw ==
    (pc = "done" /\ Includes(field, COMMA) /\ Includes(field, QUOTE) /\ Includes(field, NL))
      => /\ encoded = <<QUOTE>> \o DoubleQuotes(field) \o <<QUOTE>>
         /\ decoded.ok
         /\ decoded.trade.note = field

RuleStep(ts, nid, rec) ==
    IF \E i \in 1..Len(ts) : SameId(ts[i].id, rec.id)
    THEN [trades |-> Append(ts, [rec EXCEPT !.id = nid]), nextId |-> Num(nid.v + 1)]
    ELSE [trades |-> Append(ts, rec),
          nextId |-> IF rec.id.k = "int" /\ rec.id.v >= nid.v
                     THEN Num(rec.id.v + 1) ELSE nid]

\* the rule applied to the decoded records in encounter order
RECURSIVE Reconcile(_, _, _)
Reconcile(ts, nid, recs) ==
    IF recs = <<>> THEN [trades |-> ts, nextId |-> nid]
    ELSE LET s == RuleStep(ts, nid, Head(recs))
         IN  Reconcile(s.trades, s.nextId, Tail(recs))

(* C7: an import leaves the collection and nextId as the reconciliation rule *)
(* leaves them when applied to the decoded records in encounter order: a     *)
(* record whose id is in the collection gets id = nextId and nextId advances *)
(* by one; any other keeps its id, and nextId becomes id + 1 if id >= nextId;*)
(* either way the record is appended at the end.                             *)
C7_ReconciliationRule ==
    [][ (lastImport'.ran /\ status'.msg = "Imported") =>
          LET r == Reconcile(trades, nextId, Records(lastImport'.log))
          IN  trades' = r.trades /\ nextId' = r.nextId
      ]_vars

\* an import kept the id of one record, raising the counter past it, and
\* renumbered the next
C7_Witness ==
    /\ ImportRan
    /\ Len(lastImport.log) = 2
    /\ lastImport.log[1].branch = "kept"
    /\ lastImport.log[2].branch = "renumbered"
    /\ Len(trades) = 2
    /\ nextId = Num(trades[2].id.v + 1)

MustSkip(line) ==
    LET fields == ParseFields(line)
    IN  /\ Len(fields) = 8
        /\ \/ \E i \in 1..7 : fields[i] = <<>>
           \/ ParseFloat(fields[5]).k = "nan"
           \/ ParseInt(fields[1]).k = "nan"

MustSkipLines == {l \in DataLines : MustSkip(l)}

(* C9: an import line with an empty required field, or a PnL that does not  *)
(* parse as a finite decimal, or an ID that does not parse as an integer is  *)
(* skipped: it is not stored and it is counted as skipped.                   *)
C9_InvalidLinesSkipped ==
    ImportRan =>
      /\ \A k \in 1..Len(lastImport.log) :
            lastImport.log[k].line \in MustSkipLines => lastImport.log[k].branch = "skipped"
      /\ status.skipped >=
            Cardinality({k \in 1..Len(lastImport.log) : lastImport.log[k].line \in MustSkipLines})

\* the line is not blank and does not split into exactly 8 fields
BadCount(line) == ~DecodedOf(line).blank /\ FieldsOf(line) # 8

GoodCountEntry(e) == ~BadCount(e.line)

(* C10: a non-blank data line that does not split into exactly 8 fields      *)
(* changes neither the collection nor nextId and adds exactly one to the     *)
(* skipped count: an import ends with the collection, nextId and imported    *)
(* count it would end with had those lines been left out, and with a skipped *)
(* count greater by the number of those lines.                               *)
C10_SkipLaw ==
    [][ (lastImport'.ran /\ status'.msg = "Imported") =>
          LET log == lastImport'.log
              others == SelectSeq(log, GoodCountEntry)
              without == ImportLines(Here, [i \in 1..Len(others) |-> DecodedOf(others[i].line)])
          IN  /\ trades' = without.trades
              /\ nextId' = without.nextId
              /\ status'.imported = without.imported
              /\ status'.skipped = without.skipped + (Len(log) - Len(others))
      ]_vars

\* an import met a line of 7 fields or of 9 and a record, skipped the one and
\* stored the other
C10_Witness ==
    /\ ImportRan
    /\ \E k \in 1..Len(lastImport.log) : BadCount(lastImport.log[k].line)
    /\ status.skipped = 1
    /\ status.imported = 1

\* the line is a valid data line: 8 fields, no required field empty, an ID that
\* parses as an integer and a PnL that parses as a number
ValidLine(line) ==
    LET fields == ParseFields(line)
    IN  /\ Len(fields) = 8
        /\ \A i \in 1..7 : fields[i] # <<>>
        /\ ParseInt(fields[1]).k = "int"
        /\ ParseFloat(fields[5]).k = "int"

ValidLines == {l \in DataLines : ValidLine(l)}

\* the line holds nothing but whitespace
BlankLine(line) == \A i \in 1..Len(line) : line[i] \in Whitespace

(* C11: an import with a valid header handles every data line of the text:   *)
(* each valid line is stored, in order, whatever lines surround it; a blank  *)
(* line is counted neither as imported nor as skipped; imported + skipped is *)
(* the number of non-blank data lines, and imported the number of records    *)
(* the collection grew by.                                                   *)
C11_NeverAborted ==
    [][ (lastImport'.ran /\ status'.msg = "Imported") =>
          LET log == lastImport'.log
              pos(k) == Len(trades) + Cardinality({j \in 1..k : IsRecord(log[j].line)})
          IN  /\ Len(log) = lastImport'.count - 1
              /\ status'.imported + status'.skipped =
                   Cardinality({k \in 1..Len(log) : ~BlankLine(log[k].line)})
              /\ status'.imported = Len(trades') - Len(trades)
              /\ \A k \in 1..Len(log) :
                    log[k].line \in ValidLines =>
                      /\ IsRecord(log[k].line)
                      /\ pos(k) <= Len(trades')
                      /\ LET rec == DecodedOf(log[k].line).parsed.trade
                         IN  trades'[pos(k)] = [rec EXCEPT !.id = trades'[pos(k)].id]
      ]_vars

\* an import skipped an invalid line and then stored the valid line after it
C11_Witness ==
    /\ ImportRan
    /\ Len(lastImport.log) = 2
    /\ lastImport.log[1].branch = "skipped"
    /\ lastImport.log[2].line \in ValidLines
    /\ status.imported = 1
    /\ status.skipped = 1
    /\ trades # <<>>

\* the submit fails validation: a required field is empty, the PnL does not
\* parse as a number, or the risk-reward text is non-empty and not <decimal>:1
InvalidSubmit(raw) ==
    \/ raw.tradeSetup = <<>> \/ Trim(raw.ticker) = <<>> \/ Trim(raw.rr) = <<>>
    \/ raw.pnl = <<>> \/ Trim(raw.activeMgmt) = <<>> \/ raw.execution = <<>>
    \/ ParseFloat(raw.pnl).k = "nan"
    \/ (Trim(raw.rr) # <<>> /\ ~MatchesRRPattern(Trim(raw.rr)))

\* the form inputs that pass validation
ValidForms == {raw \in FormInputs : ~InvalidSubmit(raw)}

\* the form inputs that fail it
InvalidForms == {raw \in FormInputs : InvalidSubmit(raw)}

\* the fields of the record are the values of the form: the texts as typed,
\* surrounding whitespace removed from ticker, rr, activeMgmt and note, and
\* the number the PnL text parses to
FieldsEqualInputs(t, raw) ==
    /\ t.tradeSetup = raw.tradeSetup
    /\ t.ticker = Trim(raw.ticker)
    /\ t.rr = Trim(raw.rr)
    /\ t.pnl = ParseFloat(raw.pnl)
    /\ t.activeMgmt = Trim(raw.activeMgmt)
    /\ t.execution = raw.execution
    /\ t.note = Trim(raw.note)

(* C12: a submit of valid form inputs while not in edit mode appends exactly *)
(* one record at the end of the collection; its id is nextId as it was       *)
(* before the call, an id no record of the collection had; its fields equal  *)
(* the inputs; nextId increases by exactly one.                              *)
C12_Create ==
    [][ \A raw \in ValidForms :
          (editId = NullId /\ AddTrade(raw)) =>
            /\ Len(trades') = Len(trades) + 1
            /\ SubSeq(trades', 1, Len(trades)) = trades
            /\ trades'[Len(trades')].id = nextId
            /\ \A i \in 1..Len(trades) : trades[i].id # nextId
            /\ FieldsEqualInputs(trades'[Len(trades')], raw)
            /\ nextId.k = "int"
            /\ nextId' = Num(nextId.v + 1)
      ]_vars

\* a record was created behind another one, with a note typed with a trailing
\* space
C12_Witness ==
    /\ status.msg = "Trade added successfully!"
    /\ Len(trades) = 2
    /\ trades[2].id = Num(nextId.v - 1)
    /\ trades[2].note = <<"n">>
    /\ trades[2].date = Today

(* C13: a submit of valid inputs in edit mode replaces, on the record whose  *)
(* id is editId, every field except id and date by the inputs and leaves the *)
(* other records and nextId alone; if no record has that id the failure is   *)
(* reported and the collection, nextId and the stored state are unchanged.   *)
C13_Update ==
    [][ \A raw \in ValidForms :
          (editId # NullId /\ AddTrade(raw)) =>
            IF \E i \in 1..Len(trades) : SameId(trades[i].id, editId)
            THEN /\ Len(trades') = Len(trades)
                 /\ nextId' = nextId
                 /\ \A i \in 1..Len(trades) :
                       IF SameId(trades[i].id, editId)
                       THEN /\ trades'[i].id = trades[i].id
                            /\ trades'[i].date = trades[i].date
                            /\ FieldsEqualInputs(trades'[i], raw)
                       ELSE trades'[i] = trades[i]
            ELSE /\ status'.type = "error"
                 /\ status'.msg = "Error updating trade: not found"
                 /\ trades' = trades
                 /\ nextId' = nextId
                 /\ stored' = stored
      ]_vars

\* the second of two records was updated from the form
C13_Witness ==
    /\ status.msg = "Trade updated successfully!"
    /\ Len(trades) = 2
    /\ trades[2].ticker = <<"T">>
    /\ trades[2].note = <<"n">>
    /\ trades[1].note # <<"n">>
    /\ editId = NullId

\* a submit in edit mode found no record under editId
C13_NotFoundReached ==
    /\ status.msg = "Error updating trade: not found"
    /\ editId # NullId
    /\ trades # <<>>

(* C14: no command changes the date of a record that is in the collection:   *)
(* across every step a record that stays (the record with the same id, and,  *)
(* when no record is removed, the record at the same place) has the date it  *)
(* had.                                                                      *)
C14_DateFrozen ==
    [][ /\ \A i \in 1..Len(trades), j \in 1..Len(trades') :
              SameId(trades[i].id, trades'[j].id) => trades'[j].date = trades[i].date
        /\ Len(trades') >= Len(trades) =>
              \A i \in 1..Len(trades) : trades'[i].date = trades[i].date
      ]_vars

\* a record that entered on an earlier day was updated from the form and kept
\* its date
C14_Witness ==
    /\ status.msg = "Trade updated successfully!"
    /\ \E i \in 1..Len(trades) :
          /\ trades[i].ticker = <<"T">>
          /\ trades[i].date # Today

(* C15: deleteTrade(id), once confirmed, removes the record with that id and *)
(* nothing else when a record has that id, leaving the other records, their  *)
(* order and nextId unchanged; declined, it changes nothing; when no record  *)
(* has that id it reports not-found and the collection is unchanged.         *)
C15_Delete ==
    [][ \A id \in IdInputs, confirmed \in BOOLEAN :
          DeleteTrade(id, confirmed) =>
            /\ nextId' = nextId
            /\ IF \E i \in 1..Len(trades) : SameId(trades[i].id, id)
               THEN IF confirmed
                    THEN /\ \E i \in 1..Len(trades) :
                              /\ SameId(trades[i].id, id)
                              /\ trades' = SubSeq(trades, 1, i - 1)
                                             \o SubSeq(trades, i + 1, Len(trades))
                         /\ \A j \in 1..Len(trades') : ~SameId(trades'[j].id, id)
                    ELSE trades' = trades
               ELSE /\ status'.msg = "Trade not found for deletion."
                    /\ status'.type = "error"
                    /\ trades' = trades
      ]_vars

\* the first of two records was deleted and the second is still there
C15_Witness ==
    /\ status.msg = "Trade deleted."
    /\ Len(trades) = 1
    /\ trades[1].id = Num(2)
    /\ nextId = Num(3)

(* C16: a confirmed clearAllData empties the collection and resets nextId to *)
(* 1; a declined one leaves the collection, nextId and the stored state      *)
(* unchanged.                                                                *)
C16_Clear ==
    [][ \A confirmed \in BOOLEAN :
          ClearAllData(confirmed) =>
            IF confirmed
            THEN trades' = <<>> /\ nextId' = Num(1)
            ELSE trades' = trades /\ nextId' = nextId /\ stored' = stored
      ]_vars

\* a confirmed clear has run and the store holds the reset counter
C16_Witness ==
    /\ status.msg = "All data cleared"
    /\ trades = <<>>
    /\ nextId = Num(1)
    /\ stored.nextId = Item("text", <<"1">>)

(* C17: a submit that fails validation (a required field empty, a PnL that   *)
(* does not parse as a number, a non-empty risk-reward text that is not      *)
(* <decimal>:1) is reported as an error and changes neither the collection,  *)
(* nor nextId, nor the stored state.                                         *)
C17_InvalidSubmit ==
    [][ \A raw \in InvalidForms :
          AddTrade(raw) =>
            /\ status'.type = "error"
            /\ status'.msg # ""
            /\ trades' = trades
            /\ nextId' = nextId
            /\ stored' = stored
      ]_vars

\* a submit with a malformed risk-reward text was refused by a journal that
\* holds a record
C17_Witness ==
    /\ status.msg = "Please fix the R:R format before submitting"
    /\ status.type = "error"
    /\ trades # <<>>

(* C18: between commands the stored state equals memory: the stored         *)
(* collection is the in-memory collection and the stored counter is nextId.  *)
C18_StoreEqualsMemory ==
    /\ stored.trades.k = "json"
    /\ stored.trades.v = trades
    /\ stored.nextId.k = "text"
    /\ ParseInt(stored.nextId.v) = nextId

\* the text is a numeral
IsNumeral(text) == text # <<>> /\ \A i \in 1..Len(text) : IsDigit(text[i])

\* one of the two items is absent, unreadable or corrupt
StoreDamaged ==
    \/ stored.trades.k \in {"absent", "corrupt", "object"}
    \/ stored.nextId.k = "absent"
    \/ ~IsNumeral(stored.nextId.v)

(* C19: after a load from a store in which either item (collection or        *)
(* counter) is absent, unreadable or corrupt, the journal has an empty       *)
(* collection and nextId = 1.                                                *)
C19_LoadFallback ==
    (pc = "loaded" /\ StoreDamaged) => (trades = <<>> /\ nextId = Num(1))

\* the text of a field as the quoting rule writes it
Quoted(f) ==
    IF Includes(f, COMMA) \/ Includes(f, QUOTE) \/ Includes(f, NL)
    THEN <<QUOTE>> \o DoubleQuotes(f) \o <<QUOTE>>
    ELSE f

\* the row of a record with the quoting rule applied to each of its 8 fields
QuotedRow(t) ==
    Join(<<Quoted(NumberToText(t.id)), Quoted(t.date), Quoted(t.tradeSetup), Quoted(t.rr),
           Quoted(NumberToText(t.pnl)), Quoted(t.activeMgmt), Quoted(t.execution),
           Quoted(t.note)>>,
         <<COMMA>>)

(* C20: in the exported row of every record, each of the 8 fields is wrapped *)
(* in double-quotes with its double-quotes doubled if and only if its text   *)
(* holds a comma, a double-quote or a newline.                               *)
C20_QuotingRule ==
    \A i \in 1..Len(trades) : ExportRow(trades[i]) = QuotedRow(trades[i])


----------------------------------------------------------------------------
(* Notions of the statistics laws *)

\* the three views of a collection
ViewNames == {"overall", "scalp", "swing"}

ViewOf(ts, name) ==
    CASE name = "overall" -> ts
      [] name = "scalp" -> SelectSeq(ts, LAMBDA t : StartsWith(t.tradeSetup, SCALP))
      [] name = "swing" -> SelectSeq(ts, LAMBDA t : StartsWith(t.tradeSetup, SWING))

\* the positions of a view whose pnl is a number above 0, and below 0
Winners(view) == {i \in 1..Len(view) : view[i].pnl.k = "int" /\ view[i].pnl.v > 0}
Losers(view) == {i \in 1..Len(view) : view[i].pnl.k = "int" /\ view[i].pnl.v < 0}

\* the sum of the pnl at the positions I of a view, all of them numbers
RECURSIVE SumAt(_, _)
SumAt(view, I) ==
    IF I = {} THEN 0
    ELSE LET i == CHOOSE j \in I : TRUE
         IN  view[i].pnl.v + SumAt(view, I \ {i})

\* the sum of the pnl of a view: NaN as soon as one pnl is NaN
SumOf(view) ==
    IF \E i \in 1..Len(view) : view[i].pnl.k = "nan" THEN NaN
    ELSE Num(SumAt(view, 1..Len(view)))

\* r is an integer nearest to 100 * wins / total
NearestPercent(r, wins, total) ==
    LET off == 100 * wins - r * total
    IN  2 * (IF off < 0 THEN 0 - off ELSE off) <= total

\* the fraction q is the number sum / count
IsMean(q, sum, count) == q.d > 0 /\ q.n * count = sum * q.d

\* statistics have been computed on the collection
StatsShown == pc = "shown"

\* the collection of the aggregator example
ExampleTrades ==
    << ViewTrade(SCALP \o <<SP, "W">>, Num(100)),
       ViewTrade(SCALP \o <<SP, "W">>, Num(0 - 50)),
       ViewTrade(SWING \o <<SP, "P", "B">>, Num(200)) >>

----------------------------------------------------------------------------
(* C21: in each of the three views (all records, setup starting with        *)
(* 'Scalp:', setup starting with 'Swing:') totalTrades is the number of     *)
(* records of the view, totalPnl is the sum of their pnl (0 when the view   *)
(* is empty), and winRate is 100 * (count with pnl > 0) / totalTrades       *)
(* rounded to the nearest integer, 0 for an empty view.                     *)
C21_ViewTotals ==
    StatsShown =>
      \A name \in ViewNames :
        LET view == ViewOf(trades, name)
            s == stats[name]
        IN  /\ s.totalTrades = Len(view)
            /\ s.totalPnl = SumOf(view)
            /\ view = <<>> => s.totalPnl = Num(0) /\ s.winRate = 0
            /\ view # <<>> =>
                 NearestPercent(s.winRate, Cardinality(Winners(view)), Len(view))

\* the aggregator example has been computed: 250 over 3 records with a win
\* rate of 67 overall, 50 over 2 records with a win rate of 50 for the scalps
C21_Witness ==
    /\ StatsShown
    /\ trades = ExampleTrades
    /\ stats.overall.totalPnl = Num(250)
    /\ stats.overall.totalTrades = 3
    /\ stats.overall.winRate = 67
    /\ stats.scalp.totalPnl = Num(50)
    /\ stats.scalp.totalTrades = 2
    /\ stats.scalp.winRate = 50

----------------------------------------------------------------------------
(* C22: in each view avgWin is the mean pnl of the records with pnl > 0 (0  *)
(* if there are none) and avgLoss is the mean absolute pnl of the records   *)
(* with pnl < 0 (0 if there are none); a record with pnl = 0 counts toward  *)
(* totalTrades and belongs to neither subset.                               *)
C22_Averages ==
    StatsShown =>
      \A name \in ViewNames :
        LET view == ViewOf(trades, name)
            s == stats[name]
            W == Winners(view)
            L == Losers(view)
        IN  /\ IF W = {} THEN s.avgWin = Whole(0)
               ELSE IsMean(s.avgWin, SumAt(view, W), Cardinality(W))
            /\ IF L = {} THEN s.avgLoss = Whole(0)
               ELSE IsMean(s.avgLoss, 0 - SumAt(view, L), Cardinality(L))
            /\ s.totalTrades = Len(view)
            /\ \A i \in 1..Len(view) : view[i].pnl = Num(0) => i \notin W \cup L

\* a view with a win, a loss and a break-even record has been computed: three
\* records, the break-even one in neither mean
C22_Witness ==
    /\ StatsShown
    /\ Len(trades) = 3
    /\ \E i, j, k \in 1..3 :
         /\ trades[i].pnl = Num(100)
         /\ trades[j].pnl = Num(0 - 50)
         /\ trades[k].pnl = Num(0)
    /\ stats.overall.totalTrades = 3
    /\ stats.overall.avgWin = Whole(100)
    /\ stats.overall.avgLoss = Whole(50)

----------------------------------------------------------------------------
(* C23: an export on an empty collection reports the empty-collection      *)
(* error and offers no CSV text, however the collection became empty:       *)
(* initially, after a clear, or after the delete of its only record.        *)
C23_ExportEmpty ==
    [][ (ExportToCSV /\ trades = <<>>) =>
          /\ status' = Status("No trades to export", "error")
          /\ ~download'.offered
          /\ download'.text = <<>>
          /\ UNCHANGED <<trades, nextId, editId, stored>> ]_vars

\* an export was refused on a collection emptied by a delete: the collection
\* is empty while the counter, which only a clear resets, stands at 2
C23_Witness ==
    /\ trades = <<>>
    /\ nextId = Num(2)
    /\ status = Status("No trades to export", "error")
    /\ download = NoDownload
    /\ ~lastImport.ran

\* an export was refused on the collection as constructed or as cleared
C23_RefusedAtStart ==
    /\ trades = <<>>
    /\ nextId = Num(1)
    /\ status = Status("No trades to export", "error")
    /\ download = NoDownload

\* an export of a collection that holds a record offered its text
C23_Offered ==
    /\ trades # <<>>
    /\ download = Download(ExportText(trades))

----------------------------------------------------------------------------
(* Notions of the persistence-failure law *)

\* the store rejects the write of the command under way
Rejecting == writable # "all"

\* the commands that reach saveDataToStorage
SavingSubmit(raw) ==
    AddTrade(raw) /\ ~InvalidSubmit(raw) /\ (editId = NullId \/ HasId(trades, editId))

SavingDelete(id) == DeleteTrade(id, TRUE) /\ HasId(trades, id)

SavingClear == ClearAllData(TRUE)

SavingImport(text) ==
    ProcessCSVData(text) /\ Decoded[text].count >= 2 /\ HeaderMatches(Decoded[text])

\* the in-memory outcome of each of them
SubmitApplied(raw) ==
    IF editId = NullId
    THEN /\ Len(trades') = Len(trades) + 1
         /\ trades'[Len(trades')].id = nextId
         /\ FieldsEqualInputs(trades'[Len(trades')], raw)
         /\ nextId' = PlusOne(nextId)
    ELSE /\ Len(trades') = Len(trades)
         /\ FieldsEqualInputs(trades'[FindIndex(trades, editId)], raw)
         /\ editId' = NullId

DeleteApplied(id) ==
    /\ Len(trades') = Len(trades) - 1
    /\ ~HasId(trades', id)
    /\ nextId' = nextId

ClearApplied == trades' = <<>> /\ nextId' = Num(1)

ImportApplied(text) ==
    /\ Len(trades') = Len(trades) + status'.imported
    /\ status'.imported = Len(Records(lastImport'.log))

\* the failure is what the status line says once the command is over
FailureReported == status' = SaveError

----------------------------------------------------------------------------
(* C24: when the store rejects a write, the command that triggered it      *)
(* still completes with its in-memory mutation applied, the failure is     *)
(* reported as a non-fatal warning, and the later commands of the session  *)
(* operate on the in-memory collection and nextId.                         *)
C24_RejectedWrite ==
    [][ Rejecting =>
          /\ \A raw \in StoreForms :
               SavingSubmit(raw) => SubmitApplied(raw) /\ FailureReported
          /\ \A id \in StoreIds :
               SavingDelete(id) => DeleteApplied(id) /\ FailureReported
          /\ SavingClear => ClearApplied /\ FailureReported
          /\ \A text \in StoreTexts :
               SavingImport(text) => ImportApplied(text) /\ FailureReported ]_vars

\* what holds of a rejected write: the mutation is applied in memory, and a
\* submit reports the failure
C24_MemoryAuthoritative ==
    [][ Rejecting =>
          /\ \A raw \in StoreForms :
               SavingSubmit(raw) => SubmitApplied(raw) /\ FailureReported
          /\ \A id \in StoreIds : SavingDelete(id) => DeleteApplied(id)
          /\ SavingClear => ClearApplied
          /\ \A text \in StoreTexts : SavingImport(text) => ImportApplied(text) ]_vars

\* what the other three commands leave on the status line of a rejected write
C24_ReportOverwritten ==
    [][ Rejecting =>
          /\ \A id \in StoreIds :
               SavingDelete(id) => status' = Status("Trade deleted.", "success")
          /\ SavingClear => status' = Status("All data cleared", "success")
          /\ \A text \in StoreTexts :
               SavingImport(text) => status'.msg = "Imported" /\ status'.type = "success"
       ]_vars

\* the store lags behind the memory after a rejected write
C24_StoreBehind ==
    /\ Rejecting
    /\ stored.trades.v # [i \in 1..Len(trades) |-> JsonTrade(trades[i])]

----------------------------------------------------------------------------
(* C25: when two records of one import batch share an id that was not in   *)
(* the collection before the import, the first in input order keeps that   *)
(* id and the second is stored under the value nextId has when its line is *)
(* reached.                                                                *)
C25_SameBatchDuplicate ==
    [][ (lastImport'.ran /\ status'.msg = "Imported") =>
          LET recs == Records(lastImport'.log)
          IN  \A i, j \in 1..Len(recs) :
                (/\ i < j
                 /\ SameId(recs[i].id, recs[j].id)
                 /\ \A k \in 1..(j - 1) : k # i => ~SameId(recs[k].id, recs[i].id)
                 /\ \A k \in 1..Len(trades) : ~SameId(trades[k].id, recs[i].id))
                  => /\ Len(trades') >= Len(trades) + j
                     /\ trades'[Len(trades) + i] = recs[i]
                     /\ trades'[Len(trades) + j] =
                          [recs[j] EXCEPT
                             !.id = Reconcile(trades, nextId, SubSeq(recs, 1, j - 1)).nextId]
                     /\ trades'[Len(trades) + j].id # recs[i].id
      ]_vars

\* an import of the same line twice into an empty collection whose counter
\* stood at 3: the first record kept id 1, the second got 3
C25_Witness ==
    /\ ImportRan
    /\ Len(lastImport.log) = 2
    /\ lastImport.log[1].line = lastImport.log[2].line
    /\ lastImport.log[1].branch = "kept"
    /\ lastImport.log[2].branch = "renumbered"
    /\ Len(trades) = 2
    /\ trades[1].id = Num(1)
    /\ trades[2].id = Num(3)
    /\ nextId = Num(4)

----------------------------------------------------------------------------
(* C26: with the file read of an import completing asynchronously, so that *)
(* adds, updates, deletes, clears and other import completions come        *)
(* between the pick of a file and the processing of its text, no two       *)
(* records have the same id and nextId is above every id, in every         *)
(* reachable state.                                                        *)
C26_AsyncInvariants ==
    /\ \A i, j \in 1..Len(trades) : i < j => trades[i].id # trades[j].id
    /\ \A i \in 1..Len(trades) : Greater(nextId, trades[i].id)

\* what the interleavings do preserve: ids that are integers are distinct and
\* below the counter, which is an integer
C26_IntegerIdsOrdered ==
    /\ nextId.k = "int"
    /\ \A i, j \in 1..Len(trades) : i < j => ~SameId(trades[i].id, trades[j].id)
    /\ \A i \in 1..Len(trades) :
         trades[i].id.k = "int" => Greater(nextId, trades[i].id)

\* a read completed after a create that came while it was in flight: the
\* imported record collided with the created one and was renumbered
C26_Interleaved ==
    /\ ImportRan
    /\ reading # <<>>
    /\ Len(trades) = 2
    /\ trades[1].date = Today
    /\ lastImport.log[1].branch = "renumbered"

----------------------------------------------------------------------------
(* C27: whenever the journal is in edit mode (editId is not null), a       *)
(* record with id = editId exists in the collection, after any sequence of *)
(* load-for-edit, cancel-edit, submit, delete, clear and import commands.  *)
C27_EditTargetExists ==
    editId # NullId => \E i \in 1..Len(trades) : trades[i].id = editId

\* the edit cursor points at no record, and a submit found that out
C27_Dangling ==
    /\ editId # NullId
    /\ ~HasId(trades, editId)
    /\ status = Status("Error updating trade: not found", "error")

\* what does hold of the cursor: loadTradeForEdit only sets it to the id of a
\* record of the collection
C27_SetOnExisting ==
    [][ (editId' # editId /\ editId' # NullId) =>
          \E i \in 1..Len(trades') : trades'[i].id = editId' ]_vars

----------------------------------------------------------------------------
(* C28: a submit in edit mode only ever overwrites the very record that    *)
(* loadTradeForEdit loaded into the form, never a different record that    *)
(* acquired the same id later (through a delete or a clear followed by an  *)
(* import or by creates).                                                  *)
C28_OverwritesLoadedRecord ==
    [][ \A raw \in ValidForms :
          (AddTrade(raw) /\ editId # NullId /\ HasId(trades, editId)) => ~editGone
      ]_vars

\* a submit has overwritten a record that took the id of the loaded one after
\* that one was removed: the record of id 1 now carries the form's values and
\* the date of the import that brought it, not the date of a create
C28_OverwroteAnother ==
    /\ status = Status("Trade updated successfully!", "success")
    /\ editId = NullId
    /\ Len(trades) = 2
    /\ trades[1].date = Today
    /\ trades[1].id = Num(2)
    /\ trades[2].id = Num(1)
    /\ trades[2].date = <<"D">>
    /\ trades[2].ticker = <<"T">>

\* the history is kept as meant: out of edit mode no record is loaded, and a
\* cursor that points at no record means the loaded record is gone
C28_HistoryKept ==
    /\ editId = NullId => ~editGone
    /\ (editId # NullId /\ ~HasId(trades, editId)) => editGone

----------------------------------------------------------------------------
(* Notions of the counter law *)

DeleteStep == \E id \in IdInputs, confirmed \in BOOLEAN : DeleteTrade(id, confirmed)

ClearStep == ClearAllData(TRUE)

CreateStep == editId = NullId /\ \E raw \in ValidForms : AddTrade(raw)

\* the records of ts whose id no record of us has
Removed(ts, us) ==
    {i \in 1..Len(ts) : \A j \in 1..Len(us) : us[j].id # ts[i].id}

----------------------------------------------------------------------------
(* C29: a delete never changes nextId and, as long as no clear occurs,     *)
(* nextId never decreases; hence the ids assigned by successive creates    *)
(* are strictly increasing and a create never reuses the id of a deleted   *)
(* record.                                                                 *)
C29_CounterNeverRewinds ==
    [][ /\ DeleteStep =>
             /\ nextId' = nextId
             /\ \A i \in Removed(trades, trades') : Greater(nextId', trades[i].id)
        /\ ~ClearStep => nextId'.k = "int" /\ nextId.k = "int" /\ nextId'.v >= nextId.v
        /\ CreateStep =>
             /\ trades'[Len(trades')].id = nextId
             /\ Greater(nextId', nextId)
             /\ \A i \in 1..Len(trades) :
                  trades[i].id.k = "int" => Greater(nextId, trades[i].id)
      ]_vars

\* a create that followed the delete of the record of id 1 got id 2, not 1
C29_Witness ==
    /\ status = Status("Trade added successfully!", "success")
    /\ Len(trades) = 1
    /\ trades[1].id = Num(2)
    /\ trades[1].date = Today
    /\ nextId = Num(3)

----------------------------------------------------------------------------
(* C30: a status message shown by showStatus stays displayed for 5 seconds *)
(* after it was shown: the hide timer started for an earlier message never *)
(* hides a message shown later.                                            *)
C30_DisplayedFiveSeconds ==
    (banner.msg # "" /\ now < banner.since + HideAfter) => banner.shown

\* a message shown 2 seconds ago is hidden, by the timer of a message shown
\* 3 seconds before it, while its own timer is still pending
C30_HiddenEarly ==
    /\ banner.msg # ""
    /\ ~banner.shown
    /\ now = banner.since + 2
    /\ (banner.since + HideAfter) \in timers

\* what the timers do guarantee: the status line is hidden only by a timer
\* that is due, so never within 5 seconds of the first message of a burst
C30_NoTimerDueNotHidden ==
    [][ (banner.shown /\ ~banner'.shown) => \E due \in timers : due <= now ]_vars
====
